---------------------------- MODULE Spec2Model ----------------------------
(* The watchlist store of flickwatch (src/unnamed/part_000): an in-memory  *)
(* list of bookmarked titles mirrored to AsyncStorage under one key, with   *)
(* asynchronous hydration and fire-and-forget persistence writes.           *)
EXTENDS Integers, Sequences, FiniteSets, TLC

(***************************************************************************)
(* Bounds of the model.                                                    *)
(***************************************************************************)
\* calls made to the store (hydrate, add, remove, toggle) in one process lifetime
MaxCalls == 3

(***************************************************************************)
(* JavaScript values, as far as JSON can carry them.                       *)
(***************************************************************************)
JUndef == [t |-> "undef"]
JNull == [t |-> "null"]
JNum(n) == [t |-> "num", n |-> n]
JStr(s) == [t |-> "str", s |-> s]
\* an array holds its elements in order
JArr(a) == [t |-> "arr", a |-> a]
\* an object holds its properties in insertion order, as <<key, value>> pairs
JObj(m) == [t |-> "obj", m |-> m]

\* type WatchlistItem = { id, mediaType, title, posterPath }
WatchlistItem(id, mediaType, title, posterPath) ==
    JObj(<< <<"id", JNum(id)>>, <<"mediaType", JStr(mediaType)>>,
            <<"title", JStr(title)>>, <<"posterPath", posterPath>> >>)

MediaTypes == {"movie", "tv"}

\* x.key for a value x that is neither null nor undefined
RECURSIVE Lookup(_, _)
Lookup(m, key) ==
    IF m = <<>> THEN JUndef
    ELSE IF Head(m)[1] = key THEN Head(m)[2]
    ELSE Lookup(Tail(m), key)

Get(x, key) == IF x.t = "obj" THEN Lookup(x.m, key) ELSE JUndef

\* reading a property of null or undefined is a TypeError
Nullish(x) == x.t \in {"null", "undef"}

(***************************************************************************)
(* JSON text: a sequence of tokens.                                        *)
(***************************************************************************)
P(c) == [k |-> "p", c |-> c]
TNull == [k |-> "null"]
TNum(n) == [k |-> "n", n |-> n]
TStr(s) == [k |-> "s", s |-> s]

RECURSIVE JsonStringify(_), StringifyElems(_, _), StringifyProps(_, _)
\* JSON.stringify(v); an undefined array element is written as null
JsonStringify(v) ==
    CASE v.t = "null" -> <<TNull>>
      [] v.t = "undef" -> <<TNull>>
      [] v.t = "num" -> <<TNum(v.n)>>
      [] v.t = "str" -> <<TStr(v.s)>>
      [] v.t = "arr" -> <<P("[")>> \o StringifyElems(v.a, TRUE) \o <<P("]")>>
      [] v.t = "obj" -> <<P("{")>> \o StringifyProps(v.m, TRUE) \o <<P("}")>>

StringifyElems(a, first) ==
    IF a = <<>> THEN <<>>
    ELSE (IF first THEN <<>> ELSE <<P(",")>>) \o JsonStringify(Head(a))
         \o StringifyElems(Tail(a), FALSE)

\* a property whose value is undefined is left out
StringifyProps(m, first) ==
    IF m = <<>> THEN <<>>
    ELSE IF Head(m)[2].t = "undef" THEN StringifyProps(Tail(m), first)
    ELSE (IF first THEN <<>> ELSE <<P(",")>>)
         \o <<TStr(Head(m)[1]), P(":")>> \o JsonStringify(Head(m)[2])
         \o StringifyProps(Tail(m), FALSE)

IsP(tok, c) == tok.k = "p" /\ tok.c = c
Fail == [ok |-> FALSE]
Ok(v, rest) == [ok |-> TRUE, v |-> v, rest |-> rest]

\* a repeated key keeps its first position and takes the last value
RECURSIVE PutProp(_, _, _)
PutProp(m, key, v) ==
    IF m = <<>> THEN << <<key, v>> >>
    ELSE IF Head(m)[1] = key THEN << <<key, v>> >> \o Tail(m)
    ELSE <<Head(m)>> \o PutProp(Tail(m), key, v)

RECURSIVE ParseValue(_), ParseElems(_, _), ParseProps(_, _)
\* one JSON value at the front of toks
ParseValue(toks) ==
    IF toks = <<>> THEN Fail
    ELSE LET tok == Head(toks) rest == Tail(toks) IN
         CASE tok.k = "null" -> Ok(JNull, rest)
           [] tok.k = "n" -> Ok(JNum(tok.n), rest)
           [] tok.k = "s" -> Ok(JStr(tok.s), rest)
           [] tok.k = "p" ->
                IF tok.c = "[" THEN
                    IF rest # <<>> /\ IsP(Head(rest), "]")
                    THEN Ok(JArr(<<>>), Tail(rest))
                    ELSE ParseElems(rest, <<>>)
                ELSE IF tok.c = "{" THEN
                    IF rest # <<>> /\ IsP(Head(rest), "}")
                    THEN Ok(JObj(<<>>), Tail(rest))
                    ELSE ParseProps(rest, <<>>)
                ELSE Fail

\* value (, value)* ]
ParseElems(toks, acc) ==
    LET r == ParseValue(toks) IN
    IF ~r.ok \/ r.rest = <<>> THEN Fail
    ELSE IF IsP(Head(r.rest), "]") THEN Ok(JArr(Append(acc, r.v)), Tail(r.rest))
    ELSE IF IsP(Head(r.rest), ",") THEN ParseElems(Tail(r.rest), Append(acc, r.v))
    ELSE Fail

\* string : value (, string : value)* }
ParseProps(toks, acc) ==
    IF Len(toks) < 2 \/ toks[1].k # "s" \/ ~IsP(toks[2], ":") THEN Fail
    ELSE LET r == ParseValue(SubSeq(toks, 3, Len(toks))) IN
         IF ~r.ok \/ r.rest = <<>> THEN Fail
         ELSE LET m == PutProp(acc, toks[1].s, r.v) IN
              IF IsP(Head(r.rest), "}") THEN Ok(JObj(m), Tail(r.rest))
              ELSE IF IsP(Head(r.rest), ",") THEN ParseProps(Tail(r.rest), m)
              ELSE Fail

\* JSON.parse(text): the value, or a SyntaxError
JsonParse(text) ==
    LET r == ParseValue(text) IN
    IF r.ok /\ r.rest = <<>> THEN [ok |-> TRUE, v |-> r.v] ELSE Fail


(***************************************************************************)
(* The titles the screens hand to the store, and the keys they ask about.  *)
(***************************************************************************)
I1 == WatchlistItem(1, "movie", "A", JNull)
I1b == WatchlistItem(1, "movie", "B", JStr("p"))
I1tv == WatchlistItem(1, "tv", "S", JStr("p"))
I2 == WatchlistItem(2, "movie", "A", JNull)

\* the titles the screens offer: two movies and a tv show with the id of a movie
\* (I1b is I1 as an earlier run saved it, under another title and with a poster)
ItemUniverse == {I1, I1tv, I2}

\* the keys the screens ask about and remove: one id under both media types
Keys == {<<1, "movie">>, <<1, "tv">>}

IdOf(item) == Get(item, "id").n
MediaTypeOf(item) == Get(item, "mediaType").s

(***************************************************************************)
(* State.                                                                  *)
(***************************************************************************)
VARIABLES
    items,       \* WatchlistState.items
    hydrated,    \* WatchlistState.hydrated
    stored,      \* what AsyncStorage holds under STORAGE_KEY
    writes,      \* payloads of the setItem calls in flight
    hydrations,  \* the hydrate calls in flight
    calls,       \* calls made to the store so far
    last,        \* the step taken last, with what it saw and returned
    pendingRemove, \* WatchlistScreen's confirmation modal state
    boot,        \* which process lifetime this is, and what the one before left
    trail        \* when kept: the payload at process start and every value of items

vars == <<items, hydrated, stored, writes, hydrations, calls, last, pendingRemove, boot,
          trail>>

\* AsyncStorage.getItem resolves to null for a key never written
Absent == [has |-> FALSE]
Text(x) == [has |-> TRUE, x |-> x]

RemoveAt(s, i) == SubSeq(s, 1, i - 1) \o SubSeq(s, i + 1, Len(s))

(***************************************************************************)
(* The store's operations, as functions of the state they read.            *)
(***************************************************************************)
\* (x) => x.id === id && x.mediaType === mediaType
KeyMatch(x, id, mediaType) ==
    Get(x, "id") = JNum(id) /\ Get(x, "mediaType") = JStr(mediaType)

\* its.some(KeyMatch): "T", "F", or "E" when the callback throws a TypeError
RECURSIVE Some(_, _, _)
Some(its, id, mediaType) ==
    IF its = <<>> THEN "F"
    ELSE IF Nullish(Head(its)) THEN "E"
    ELSE IF KeyMatch(Head(its), id, mediaType) THEN "T"
    ELSE Some(Tail(its), id, mediaType)

\* its.filter((x) => !KeyMatch(x)), given that no callback throws
RECURSIVE Filter(_, _, _)
Filter(its, id, mediaType) ==
    IF its = <<>> THEN <<>>
    ELSE (IF KeyMatch(Head(its), id, mediaType) THEN <<>> ELSE <<Head(its)>>)
         \o Filter(Tail(its), id, mediaType)

AnyNullish(its) == \E i \in 1..Len(its) : Nullish(its[i])

\* persist that writes the newest element only
persistHead(next) ==
    JsonStringify(JArr(IF next = <<>> THEN next ELSE <<Head(next)>>))

\* persist(next): the payload handed to AsyncStorage.setItem
persist(next) == JsonStringify(JArr(next))

Outcome(threw, its, wrote) == [threw |-> threw, items |-> its, wrote |-> wrote]

\* add without the membership test
addUnchecked(its, item) ==
    LET next == <<item>> \o its IN Outcome(FALSE, next, <<persist(next)>>)

\* add that launches no write while another write is in flight
addCoalesced(its, item) ==
    LET exists == Some(its, IdOf(item), MediaTypeOf(item)) IN
    IF exists = "E" THEN Outcome(TRUE, its, <<>>)
    ELSE IF exists = "T" THEN Outcome(FALSE, its, <<>>)
    ELSE LET next == <<item>> \o its IN
         Outcome(FALSE, next, IF writes = <<>> THEN <<persist(next)>> ELSE <<>>)

\* add that takes the new title and poster for a key already present
addUpdates(its, item) ==
    LET exists == Some(its, IdOf(item), MediaTypeOf(item)) IN
    IF exists = "E" THEN Outcome(TRUE, its, <<>>)
    ELSE IF exists = "T"
         THEN LET next == [i \in 1..Len(its) |->
                             IF KeyMatch(its[i], IdOf(item), MediaTypeOf(item))
                             THEN item ELSE its[i]]
              IN  Outcome(FALSE, next, <<persist(next)>>)
    ELSE LET next == <<item>> \o its IN Outcome(FALSE, next, <<persist(next)>>)

\* add that puts the item at the end
addAppends(its, item) ==
    LET exists == Some(its, IdOf(item), MediaTypeOf(item)) IN
    IF exists = "E" THEN Outcome(TRUE, its, <<>>)
    ELSE IF exists = "T" THEN Outcome(FALSE, its, <<>>)
    ELSE LET next == its \o <<item>> IN Outcome(FALSE, next, <<persist(next)>>)

\* add that writes the new sequence twice
addWritesTwice(its, item) ==
    LET exists == Some(its, IdOf(item), MediaTypeOf(item)) IN
    IF exists = "E" THEN Outcome(TRUE, its, <<>>)
    ELSE IF exists = "T" THEN Outcome(FALSE, its, <<>>)
    ELSE LET next == <<item>> \o its IN Outcome(FALSE, next, <<persist(next), persist(next)>>)

\* add that launches the write and leaves items for the write to set
addDeferred(its, item) ==
    LET exists == Some(its, IdOf(item), MediaTypeOf(item)) IN
    IF exists = "E" THEN Outcome(TRUE, its, <<>>)
    ELSE IF exists = "T" THEN Outcome(FALSE, its, <<>>)
    ELSE LET next == <<item>> \o its IN Outcome(FALSE, its, <<persist(next)>>)

add(its, item) ==
    LET exists == Some(its, IdOf(item), MediaTypeOf(item)) IN
    IF exists = "E" THEN Outcome(TRUE, its, <<>>)
    ELSE IF exists = "T" THEN Outcome(FALSE, its, <<>>)
    ELSE LET next == <<item>> \o its IN Outcome(FALSE, next, <<persist(next)>>)

\* remove that matches on the id alone
removeById(its, id, mediaType) ==
    LET next == SelectSeq(its, LAMBDA x : Get(x, "id") # JNum(id)) IN
    Outcome(FALSE, next, <<persist(next)>>)

\* remove that writes only when an element was dropped
removeQuiet(its, id, mediaType) ==
    IF AnyNullish(its) THEN Outcome(TRUE, its, <<>>)
    ELSE LET next == Filter(its, id, mediaType) IN
         Outcome(FALSE, next, IF next = its THEN <<>> ELSE <<persist(next)>>)

remove(its, id, mediaType) ==
    IF AnyNullish(its) THEN Outcome(TRUE, its, <<>>)
    ELSE LET next == Filter(its, id, mediaType) IN
         Outcome(FALSE, next, <<persist(next)>>)

\* isInWatchlist that matches on the id alone
isInWatchlistById(its, id, mediaType) ==
    IF AnyNullish(its) THEN "E"
    ELSE IF \E i \in 1..Len(its) : Get(its[i], "id") = JNum(id) THEN "T" ELSE "F"

isInWatchlist(its, id, mediaType) == Some(its, id, mediaType)

\* toggle that removes whatever the membership
toggleRemoves(its, item) == remove(its, IdOf(item), MediaTypeOf(item))

\* toggle that puts an absent item at the end
toggleAppends(its, item) ==
    LET exists == isInWatchlist(its, IdOf(item), MediaTypeOf(item)) IN
    IF exists = "E" THEN Outcome(TRUE, its, <<>>)
    ELSE IF exists = "T" THEN remove(its, IdOf(item), MediaTypeOf(item))
    ELSE LET next == its \o <<item>> IN Outcome(FALSE, next, <<persist(next)>>)

\* toggle that adds whatever the membership
toggleAdds(its, item) == add(its, item)

toggle(its, item) ==
    LET exists == isInWatchlist(its, IdOf(item), MediaTypeOf(item)) IN
    IF exists = "E" THEN Outcome(TRUE, its, <<>>)
    ELSE IF exists = "T" THEN remove(its, IdOf(item), MediaTypeOf(item))
    ELSE add(its, item)

\* a catch branch that leaves the store cold
hydrateCatchCold == [items |-> <<>>, hydrated |-> FALSE, threw |-> FALSE]

\* no catch branch: the error reaches the caller
hydrateRethrow == [items |-> items, hydrated |-> hydrated, threw |-> TRUE]

\* the catch branch of hydrate
hydrateCatch == [items |-> <<>>, hydrated |-> TRUE, threw |-> FALSE]

\* hydrate that merges what it read into the items held
hydrateMerging(res) ==
    IF ~res.ok THEN hydrateCatch
    ELSE LET raw == res.raw
             parsed == IF raw.has /\ raw.x # <<>> THEN JsonParse(raw.x)
                       ELSE [ok |-> TRUE, v |-> JArr(<<>>)]
         IN  IF ~parsed.ok THEN hydrateCatch
             ELSE [items |-> IF parsed.v.t = "arr" THEN items \o parsed.v.a ELSE <<>>,
                   hydrated |-> TRUE, threw |-> FALSE]

\* hydrate that keeps the items a mutation put there before it completed
hydrateKeeping(res) ==
    IF ~res.ok THEN hydrateCatch
    ELSE LET raw == res.raw
             parsed == IF raw.has /\ raw.x # <<>> THEN JsonParse(raw.x)
                       ELSE [ok |-> TRUE, v |-> JArr(<<>>)]
         IN  IF ~parsed.ok THEN hydrateCatch
             ELSE [items |-> IF items # <<>> THEN items
                             ELSE IF parsed.v.t = "arr" THEN parsed.v.a ELSE <<>>,
                   hydrated |-> TRUE, threw |-> FALSE]

\* hydrate that sets items and leaves the flag as it was
hydrateUnflagged(res) ==
    IF ~res.ok THEN [items |-> <<>>, hydrated |-> hydrated, threw |-> FALSE]
    ELSE LET raw == res.raw
             parsed == IF raw.has /\ raw.x # <<>> THEN JsonParse(raw.x)
                       ELSE [ok |-> TRUE, v |-> JArr(<<>>)]
         IN  IF ~parsed.ok THEN [items |-> <<>>, hydrated |-> hydrated, threw |-> FALSE]
             ELSE [items |-> IF parsed.v.t = "arr" THEN parsed.v.a ELSE <<>>,
                   hydrated |-> hydrated, threw |-> FALSE]

\* hydrate, from the point where getItem has settled with res
hydrateSettled(res) ==
    IF ~res.ok THEN hydrateCatch
    ELSE LET raw == res.raw
             parsed == IF raw.has /\ raw.x # <<>> THEN JsonParse(raw.x)
                       ELSE [ok |-> TRUE, v |-> JArr(<<>>)]
         IN  IF ~parsed.ok THEN hydrateCatch
             ELSE [items |-> IF parsed.v.t = "arr" THEN parsed.v.a ELSE <<>>,
                   hydrated |-> TRUE, threw |-> FALSE]

\* requestRemove(id, mediaType, title): the value given to setPendingRemove
requestRemove(id, mediaType, title) ==
    [has |-> TRUE, id |-> id, mediaType |-> mediaType, title |-> title]

\* confirmRemove that removes the item listed first
confirmRemoveFirst(its, pending) ==
    IF its = <<>> THEN remove(its, pending.id.n, pending.mediaType.s)
    ELSE remove(its, Get(its[1], "id").n, Get(its[1], "mediaType").s)

\* confirmRemove with a pending item: remove(pendingRemove.id, pendingRemove.mediaType)
confirmRemove(its, pending) == remove(its, pending.id.n, pending.mediaType.s)

\* items.length === 0 ? the empty box : the list
showsEmpty(its) == Len(its) = 0

\* a rejected write that undoes the latest add
persistUndone(its, hyd) ==
    [items |-> IF its = <<>> THEN its ELSE Tail(its), hydrated |-> hyd, reported |-> FALSE]

\* persist(next).catch(() => {}): what a rejected write does to the store
persistRejected(its, hyd) == [items |-> its, hydrated |-> hyd, reported |-> FALSE]

(***************************************************************************)
(* What the backing store may hold when the process starts.                *)
(***************************************************************************)
\* payloads an earlier run of this store wrote: none, or persist(items)
OwnPayloads ==
    {Absent} \cup {Text(persist(s)) : s \in {<<I1>>, <<I1tv, I1b>>}}

\* texts that are no JSON: "", "[1,"
BadJsonTexts == {<<>>, <<P("["), TNum(1), P(",")>>}

\* JSON values that are no sequence of WatchlistItem
WrongShapes ==
    {JObj(<< <<"items", JArr(<<I1>>)>> >>),
     JArr(<<JNull>>),
     JArr(<<JObj(<< <<"title", JStr("A")>> >>)>>)}

\* sequences of WatchlistItem that repeat a key
RepeatedKeys == {<<I1, I2, I1b>>}

AnyPayloads ==
    OwnPayloads
    \cup {Text(x) : x \in BadJsonTexts}
    \cup {Text(JsonStringify(v)) : v \in WrongShapes}
    \cup {Text(persist(s)) : s \in RepeatedKeys}

(***************************************************************************)
(* Steps.                                                                  *)
(***************************************************************************)
Start == [op |-> "start"]

\* useState<PendingRemove>(null)
NoPending == [has |-> FALSE]

\* boot.clean, in the first lifetime: so far hydrate was called once, on the
\* cold store, its read succeeded, every mutation came after it had completed,
\* and no write was rejected
Tracked(c) == IF boot.life = 1 THEN [boot EXCEPT !.clean = c] ELSE boot

\* const STORAGE_KEY
STORAGE_KEY == "@flickwatch_watchlist_v1"

\* no trail is kept
NoTrail == [on |-> FALSE, start |-> Absent, seen |-> {}]

\* the trail, once items has become its
Trailed(its) == IF trail.on THEN [trail EXCEPT !.seen = @ \cup {its}] ELSE trail

InitStore ==
    /\ items = <<>>
    /\ hydrated = FALSE
    /\ writes = <<>>
    /\ hydrations = <<>>
    /\ calls = 0
    /\ last = Start
    /\ pendingRemove = NoPending
    /\ boot = [life |-> 1, clean |-> TRUE, held |-> <<>>]

Init == InitStore /\ stored \in OwnPayloads /\ trail = NoTrail

InitAny == InitStore /\ stored \in AnyPayloads /\ trail = NoTrail

\* as Init, keeping the trail
InitTrail ==
    /\ InitStore
    /\ stored \in OwnPayloads
    /\ trail = [on |-> TRUE, start |-> stored, seen |-> {items}]

\* a mutation that also marks the store hydrated
MutateMarksHydrated(r) ==
    /\ calls < MaxCalls
    /\ calls' = calls + 1
    /\ items' = r.items
    /\ writes' = writes \o r.wrote
    /\ boot' = Tracked(boot.clean /\ hydrated /\ hydrations = <<>>)
    /\ trail' = Trailed(r.items)
    /\ hydrated' = TRUE
    /\ UNCHANGED <<stored, hydrations>>

\* a synchronous mutation: set({ items }) and the setItem calls it launches
Mutate(r) ==
    /\ calls < MaxCalls
    /\ calls' = calls + 1
    /\ items' = r.items
    /\ writes' = writes \o r.wrote
    /\ boot' = Tracked(boot.clean /\ hydrated /\ hydrations = <<>>)
    /\ trail' = Trailed(r.items)
    /\ UNCHANGED <<hydrated, stored, hydrations>>

Add ==
    \E item \in ItemUniverse :
        LET r == add(items, item) IN
        /\ Mutate(r)
        /\ last' = [op |-> "add", item |-> item, pre |-> items,
                    threw |-> r.threw, wrote |-> r.wrote]
        /\ UNCHANGED pendingRemove

Remove ==
    \E key \in Keys :
        LET r == remove(items, key[1], key[2]) IN
        /\ Mutate(r)
        /\ last' = [op |-> "remove", key |-> key, pre |-> items,
                    threw |-> r.threw, wrote |-> r.wrote]
        /\ UNCHANGED pendingRemove

\* twice: this call follows a toggle of the same item with nothing in between;
\* pre2 is then items as they were before that first call
Toggle ==
    \E item \in ItemUniverse :
        LET r == toggle(items, item)
            twice == last.op = "toggle" /\ last.item = item /\ ~last.threw
        IN
        /\ Mutate(r)
        /\ last' = [op |-> "toggle", item |-> item, pre |-> items,
                    threw |-> r.threw, wrote |-> r.wrote,
                    twice |-> twice, pre2 |-> IF twice THEN last.pre ELSE <<>>]
        /\ UNCHANGED pendingRemove

IsInWatchlist ==
    \E key \in Keys :
        LET r == isInWatchlist(items, key[1], key[2]) IN
        /\ last' = [op |-> "isInWatchlist", key |-> key, pre |-> items,
                    threw |-> r = "E", ret |-> r = "T"]
        /\ UNCHANGED <<items, hydrated, stored, writes, hydrations, calls, pendingRemove, boot, trail>>

\* hydrate() up to its await: AsyncStorage.getItem is called
HydrateCall ==
    /\ calls < MaxCalls
    /\ calls' = calls + 1
    /\ hydrations' = Append(hydrations, [pc |-> "reading"])
    /\ last' = [op |-> "hydrateCall", storageKey |-> STORAGE_KEY]
    /\ boot' = Tracked(boot.clean /\ ~hydrated /\ hydrations = <<>>)
    /\ UNCHANGED <<items, hydrated, stored, writes, pendingRemove, trail>>

\* the read settles: it resolves with what the key holds then, or it rejects
GetItemSettle ==
    \E i \in 1..Len(hydrations) : \E res \in {[ok |-> TRUE, raw |-> stored], [ok |-> FALSE]} :
        /\ hydrations[i].pc = "reading"
        /\ hydrations' = [hydrations EXCEPT ![i] = [pc |-> "settled", res |-> res]]
        /\ last' = [op |-> "getItem", res |-> res]
        /\ UNCHANGED <<items, hydrated, stored, writes, calls, pendingRemove, boot, trail>>

\* hydrate() after its await, to its end
HydrateDone ==
    \E i \in 1..Len(hydrations) :
        /\ hydrations[i].pc = "settled"
        /\ LET r == hydrateSettled(hydrations[i].res) IN
           /\ items' = r.items
           /\ hydrated' = r.hydrated
           /\ last' = [op |-> "hydrate", res |-> hydrations[i].res, pre |-> items,
                       preHydrated |-> hydrated, threw |-> r.threw]
        /\ hydrations' = RemoveAt(hydrations, i)
        /\ boot' = Tracked(boot.clean /\ hydrations[i].res.ok)
        /\ trail' = Trailed(hydrateSettled(hydrations[i].res).items)
        /\ UNCHANGED <<stored, writes, calls, pendingRemove>>

\* a setItem in flight lands: the payload replaces what the key held
SetItemLand ==
    \E i \in 1..Len(writes) :
        /\ stored' = Text(writes[i])
        /\ writes' = RemoveAt(writes, i)
        /\ last' = [op |-> "setItem", storageKey |-> STORAGE_KEY, payload |-> writes[i],
                    pre |-> items, preHydrated |-> hydrated]
        /\ UNCHANGED <<items, hydrated, hydrations, calls, pendingRemove, boot, trail>>

\* a setItem in flight rejects: persist's promise rejects into .catch(() => {})
SetItemReject ==
    \E i \in 1..Len(writes) :
        LET r == persistRejected(items, hydrated) IN
        /\ items' = r.items
        /\ hydrated' = r.hydrated
        /\ writes' = RemoveAt(writes, i)
        /\ last' = [op |-> "setItemRejected", pre |-> items,
                    preHydrated |-> hydrated, threw |-> r.reported]
        /\ boot' = Tracked(FALSE)
        /\ UNCHANGED <<stored, hydrations, calls, pendingRemove, trail>>

Next ==
    \/ Add
    \/ Remove
    \/ Toggle
    \/ IsInWatchlist
    \/ HydrateCall
    \/ GetItemSettle
    \/ HydrateDone
    \/ SetItemLand
    \/ SetItemReject

\* the process ends and a new one starts: the store is created anew and only
\* the backing store is kept; the new process is followed for one call
Restart ==
    /\ boot.life = 1
    /\ items' = <<>>
    /\ hydrated' = FALSE
    /\ writes' = <<>>
    /\ hydrations' = <<>>
    /\ calls' = MaxCalls - 1
    /\ pendingRemove' = NoPending
    /\ boot' = [life |-> 2, held |-> items,
                clean |-> boot.clean /\ hydrated /\ writes = <<>> /\ hydrations = <<>>]
    /\ last' = [op |-> "restart", pre |-> items]
    /\ UNCHANGED <<stored, trail>>

\* WatchlistScreen: the trash button of a listed item opens the confirmation
RequestRemove ==
    \E i \in 1..Len(items) :
        /\ pendingRemove' = requestRemove(Get(items[i], "id"), Get(items[i], "mediaType"),
                                          Get(items[i], "title"))
        /\ last' = [op |-> "requestRemove", pre |-> items, listed |-> items[i],
                    wrote |-> <<>>]
        /\ UNCHANGED <<items, hydrated, stored, writes, hydrations, calls, boot, trail>>

\* WatchlistScreen: Cancel, or the modal's onRequestClose
CancelRemove ==
    /\ pendingRemove.has
    /\ pendingRemove' = NoPending
    /\ last' = [op |-> "cancelRemove", pre |-> items, pending |-> pendingRemove,
                wrote |-> <<>>]
    /\ UNCHANGED <<items, hydrated, stored, writes, hydrations, calls, boot, trail>>

\* WatchlistScreen: Remove, with a pending item (it returns at once without one)
ConfirmRemove ==
    /\ pendingRemove.has
    /\ LET r == confirmRemove(items, pendingRemove) IN
       /\ Mutate(r)
       /\ last' = [op |-> "confirmRemove", pre |-> items, pending |-> pendingRemove,
                   threw |-> r.threw, wrote |-> r.wrote]
    /\ pendingRemove' = NoPending

\* the store with the Watchlist screen in front of it; isInWatchlist, which
\* changes nothing, is left to Next
NextScreen ==
    \/ Add
    \/ Remove
    \/ Toggle
    \/ HydrateCall
    \/ GetItemSettle
    \/ HydrateDone
    \/ SetItemLand
    \/ SetItemReject
    \/ RequestRemove
    \/ CancelRemove
    \/ ConfirmRemove

\* the store over two process lifetimes
NextRestart ==
    \/ Next
    \/ Restart

\* the mount effect of DetailScreen and of WatchlistScreen:
\* if (!hydrated) hydrate()
MountEffect == ~hydrated /\ HydrateCall

\* mutations by a caller that waits for hydrated
AddHydrated == hydrated /\ Add

RemoveHydrated == hydrated /\ Remove

ToggleHydrated == hydrated /\ Toggle

\* the store behind screens that hydrate at mount and mutate once hydrated
NextMounted ==
    \/ MountEffect
    \/ GetItemSettle
    \/ HydrateDone
    \/ AddHydrated
    \/ RemoveHydrated
    \/ ToggleHydrated
    \/ SetItemLand
    \/ SetItemReject

\* the backing store holds what an earlier run of the store left there
Spec == Init /\ [][Next]_vars

\* the backing store holds anything at all
SpecAny == InitAny /\ [][Next]_vars

SpecScreen == Init /\ [][NextScreen]_vars

SpecMounted == Init /\ [][NextMounted]_vars

\* a hydrate whose read has settled leaves hydrations: among the steps of
\* Next these are the HydrateDone steps
HydrateResumes ==
    \E i \in 1..Len(hydrations) :
        hydrations[i].pc = "settled" /\ hydrations' = RemoveAt(hydrations, i)

\* once getItem has settled, the rest of hydrate is a continuation the event
\* loop runs
SpecLive == Init /\ [][Next]_vars /\ WF_hydrations(HydrateResumes)

\* the steps that change items or the backing store, or lead to it
NextTrail ==
    \/ Add
    \/ Remove
    \/ Toggle
    \/ HydrateCall
    \/ GetItemSettle
    \/ HydrateDone
    \/ SetItemLand
    \/ SetItemReject

\* as Spec, with the trail kept
SpecTrail == InitTrail /\ [][NextTrail]_vars

SpecRestart == Init /\ [][NextRestart]_vars

(***************************************************************************)
(* Properties.                                                             *)
(***************************************************************************)
\* the (id, mediaType) pair of an element, when it has one
HasKey(x) == x.t = "obj" /\ Get(x, "id") # JUndef /\ Get(x, "mediaType") # JUndef
KeyOf(x) == <<Get(x, "id"), Get(x, "mediaType")>>
ItemKey(item) == <<JNum(IdOf(item)), JStr(MediaTypeOf(item))>>
CallKey(key) == <<JNum(key[1]), JStr(key[2])>>

\* the positions of its that hold an element with key k
Holding(its, k) == {i \in 1..Len(its) : HasKey(its[i]) /\ KeyOf(its[i]) = k}
Member(its, k) == Holding(its, k) # {}

\* the elements of its that do not have key k, in their order
Without(its, k) == SelectSeq(its, LAMBDA x : ~(HasKey(x) /\ KeyOf(x) = k))

\* a WatchlistItem as section 6 of the specification describes it
IsWatchlistItem(x) ==
    /\ x.t = "obj"
    /\ Get(x, "id").t = "num"
    /\ Get(x, "mediaType") \in {JStr(m) : m \in MediaTypes}
    /\ Get(x, "title").t = "str"
    /\ Get(x, "posterPath").t \in {"str", "null"}

IsWatchlistItemSeq(v) ==
    v.t = "arr" /\ \A i \in 1..Len(v.a) : IsWatchlistItem(v.a[i])

\* every sequence of up to MaxCalls + 1 of the titles, with the text persist gives it
SavedTitles == {I1, I1b, I1tv, I2}
TitleSeqs == UNION {[1..n -> SavedTitles] : n \in 0..MaxCalls}
Serialized == {<<s, persist(s)>> : s \in TitleSeqs}

HydrateRead == last.op = "hydrate" /\ last.res.ok /\ last.res.raw.has

\* C1: in every reachable state, whatever the backing store held at process
\* start, no two elements of items have the same (id, mediaType) pair.
C1_NoDuplicateKeys ==
    \A i, j \in 1..Len(items) :
        (i < j /\ HasKey(items[i]) /\ HasKey(items[j])) => KeyOf(items[i]) # KeyOf(items[j])

C3_HydratedOnce ==
    /\ hydrated = FALSE
    /\ [][/\ hydrated => hydrated'
          /\ (~hydrated /\ hydrated') => last'.op = "hydrate"
          /\ last'.op = "hydrate" => hydrated']_vars

C3_Witness ==
    /\ last.op = "hydrate"
    /\ last.preHydrated
    /\ ~last.res.ok
    /\ hydrated

\* C4: hydrate never raises to its caller, and it completes with items = []
\* and hydrated = true whenever the read rejects, the key is absent, or the
\* stored payload is no JSON.
C4_HydrateRecovers ==
    last.op = "hydrate" =>
        /\ ~last.threw
        /\ (~last.res.ok \/ ~last.res.raw.has \/ last.res.raw.x \in BadJsonTexts)
               => (items = <<>> /\ hydrated)

C4_Witness ==
    /\ HydrateRead
    /\ last.res.raw.x \in BadJsonTexts \ {<<>>}
    /\ last.pre # <<>>
    /\ items = <<>>

\* C5: when the read yields the serialization of a sequence of N
\* WatchlistItems, hydrate ends with hydrated = true and items equal to that
\* sequence, element by element and in order.
C5_HydrateRoundTrip ==
    HydrateRead =>
        \A p \in Serialized : last.res.raw.x = p[2] => (items = p[1] /\ hydrated)

C5_Witness ==
    /\ HydrateRead
    /\ last.res.raw.x = persist(<<I1tv, I1b>>)
    /\ last.pre # <<>>
    /\ items = <<I1tv, I1b>>

\* C6: when the stored payload is JSON of the wrong shape for a sequence of
\* WatchlistItem, hydrate ends with items = [] and hydrated = true.
C6_WrongShapeFallsBack ==
    (HydrateRead /\ last.res.raw.x # <<>>) =>
        LET parsed == JsonParse(last.res.raw.x) IN
        (parsed.ok /\ ~IsWatchlistItemSeq(parsed.v)) => (items = <<>> /\ hydrated)

\* C7: add, remove, toggle and isInWatchlist never raise, in any reachable
\* state of the store.
C7_NeverRaises ==
    last.op \in {"add", "remove", "toggle", "isInWatchlist"} => ~last.threw

\* C8: when a persistence write fails, items and hydrated stay as they were
\* (as the mutation left them) and nothing is reported to any caller.
C8_WriteFailureIsSilent ==
    last.op = "setItemRejected" =>
        /\ items = last.pre
        /\ hydrated = last.preHydrated
        /\ ~last.threw

C8_Witness ==
    /\ last.op = "setItemRejected"
    /\ items # <<>>
    /\ stored # Text(persist(items))

C10_RemoveFilters ==
    last.op = "remove" =>
        /\ items = Without(last.pre, CallKey(last.key))
        /\ ~Member(last.pre, CallKey(last.key)) => items = last.pre

C10_Witness ==
    /\ last.op = "remove"
    /\ Len(last.pre) = 3
    /\ Holding(last.pre, CallKey(last.key)) = {2}
    /\ Len(items) = 2

\* C11: add(item) with a key not yet in items puts item at index 0 and keeps
\* all previous elements after it, in their previous order.
C11_AddPrepends ==
    (last.op = "add" /\ ~Member(last.pre, ItemKey(last.item))) =>
        /\ Len(items) = Len(last.pre) + 1
        /\ items[1] = last.item
        /\ \A i \in 1..Len(last.pre) : items[i + 1] = last.pre[i]

C11_Witness ==
    /\ last.op = "add"
    /\ Len(last.pre) = 2
    /\ ~Member(last.pre, ItemKey(last.item))
    /\ Len(items) = 3

\* C12, as stated: every add call triggers exactly one write, whose payload
\* is the new full sequence including item.
C12_AddAlwaysWrites ==
    last.op = "add" =>
        /\ Len(last.wrote) = 1
        /\ last.wrote[1] = persist(items)
        /\ Member(items, ItemKey(last.item))

\* C12, amended: add(item) with a key not yet in items triggers exactly one
\* write, whose payload is the new full sequence including item; with a key
\* already in items it triggers none.
C12_AddWritesOnceIfNew ==
    [][last'.op = "add" =>
          IF Member(items, ItemKey(last'.item))
          THEN writes' = writes
          ELSE /\ writes' = Append(writes, persist(items'))
               /\ Member(items', ItemKey(last'.item))]_vars

C12_Witness ==
    /\ last.op = "add"
    /\ last.pre # <<>>
    /\ writes = <<persist(items)>>
    /\ Len(items) = Len(last.pre) + 1

\* C15: hydration replaces and does not merge: after hydrate completes, items
\* is the sequence read and parsed from the backing store (the empty one when
\* the key is absent or the read fails), whatever add, remove or toggle put
\* in items before hydration resolved.
C15_HydrateReplaces ==
    last.op = "hydrate" =>
        IF last.res.ok /\ last.res.raw.has
        THEN \E p \in Serialized : last.res.raw.x = p[2] /\ items = p[1]
        ELSE items = <<>>

C15_Witness ==
    /\ HydrateRead
    /\ ~last.preHydrated
    /\ last.pre = <<I2>>
    /\ items = <<I1>>

\* C16: the effect of add/remove on items is there when the call returns,
\* with its write still unsettled, and no settling of a write, landed or
\* rejected, changes items.
C16_EffectIsImmediate ==
    [][/\ last'.op = "add" =>
             /\ items' = IF Member(items, ItemKey(last'.item)) THEN items
                         ELSE <<last'.item>> \o items
             /\ writes' = writes \o last'.wrote
             /\ stored' = stored
       /\ last'.op = "remove" =>
             /\ items' = Without(items, CallKey(last'.key))
             /\ writes' = writes \o last'.wrote
             /\ stored' = stored
       /\ last'.op \in {"setItem", "setItemRejected"} => items' = items]_vars

C16_Witness ==
    /\ last.op = "add"
    /\ Len(writes) = 2
    /\ Len(items) = 2
    /\ stored = Absent

\* C17: isInWatchlist(id, mediaType) returns true exactly when some element
\* of items has that id and that mediaType; it changes neither items nor
\* hydrated and issues no backing-store read or write.
C17_IsInWatchlistIsPure ==
    [][last'.op = "isInWatchlist" =>
          /\ last'.ret = Member(items, CallKey(last'.key))
          /\ ~last'.threw
          /\ UNCHANGED <<items, hydrated, stored, writes, hydrations>>]_vars

C17_Witness ==
    /\ last.op = "isInWatchlist"
    /\ last.key = <<1, "tv">>
    /\ ~last.ret
    /\ items = <<I1>>

\* C18: toggle(x) produces exactly the state and the writes of
\* remove(x.id, x.mediaType) when x's key is in items and exactly those of
\* add(x) otherwise, so it flips the membership of x's key.
C18_ToggleDelegates ==
    [][last'.op = "toggle" =>
          LET x == last'.item
              r == IF Member(items, ItemKey(x)) THEN remove(items, IdOf(x), MediaTypeOf(x))
                   ELSE add(items, x)
          IN  /\ items' = r.items
              /\ writes' = writes \o r.wrote
              /\ last'.threw = r.threw
              /\ UNCHANGED <<hydrated, stored, hydrations>>
              /\ Member(items', ItemKey(x)) # Member(items, ItemKey(x))]_vars

C18_Witness ==
    /\ last.op = "toggle"
    /\ ~last.twice
    /\ Member(last.pre, ItemKey(last.item))
    /\ Len(last.pre) = 2
    /\ Len(items) = 1
    /\ Len(last.wrote) = 1

\* C20: every remove call schedules one write of the full resulting
\* sequence, also when no element matched the key; an add call for a key
\* already present schedules none.
C20_RemoveAlwaysWrites ==
    [][/\ last'.op = "remove" => writes' = Append(writes, persist(items'))
       /\ (last'.op = "add" /\ Member(items, ItemKey(last'.item)))
             => (writes' = writes /\ last'.wrote = <<>>)]_vars

C20_Witness ==
    /\ last.op = "remove"
    /\ last.pre # <<>>
    /\ ~Member(last.pre, CallKey(last.key))
    /\ writes = <<persist(last.pre)>>

\* C13: when the first process hydrated its store before any mutation and
\* every write it issued succeeded and landed before the restart, hydrate in
\* the next process yields the items held before the restart.
C13_SurvivesRestart ==
    (boot.life = 2 /\ boot.clean /\ last.op = "hydrate" /\ last.res.ok)
        => items = boot.held

\* C14: once every in-flight write of a hydrated store has settled, the
\* payload stored under the key is the serialization of the current items.
C14_StoreCatchesUp ==
    (/\ last.op \in {"setItem", "setItemRejected"}
     /\ hydrated
     /\ writes = <<>>
     /\ hydrations = <<>>) => stored = Text(persist(items))

\* the key the pending confirmation names
PendingKey(pending) == <<pending.id, pending.mediaType>>

\* C19: in WatchlistScreen, an item's remove button only opens the
\* confirmation for that item and leaves items unchanged; Cancel closes it
\* and leaves items unchanged; Remove calls remove for exactly the pending
\* item's (id, mediaType), after which no element with that key is listed,
\* and the empty state shows exactly when items is empty.
C19_RemoveNeedsConfirm ==
    [][/\ last'.op = "requestRemove" =>
             /\ items' = items /\ writes' = writes
             /\ pendingRemove'.has
             /\ PendingKey(pendingRemove') = KeyOf(last'.listed)
       /\ last'.op = "cancelRemove" =>
             /\ items' = items /\ writes' = writes
             /\ ~pendingRemove'.has
       /\ last'.op = "confirmRemove" =>
             /\ items' = Without(items, PendingKey(pendingRemove))
             /\ writes' = Append(writes, persist(items'))
             /\ ~Member(items', PendingKey(pendingRemove))
             /\ ~pendingRemove'.has
             /\ showsEmpty(items') = (items' = <<>>)]_vars

C19_Witness ==
    /\ last.op = "confirmRemove"
    /\ last.pre = <<I1>>
    /\ PendingKey(last.pending) = KeyOf(I1)
    /\ items = <<>>
    /\ showsEmpty(items)

Mutations == {"add", "remove", "toggle"}

\* C21: every write goes to the one fixed key with a payload that parses
\* back to the full items sequence its mutation produced; a write that
\* lands replaces the stored payload by its own, and nothing else changes
\* the stored payload.
C21_WritesWholeSequence ==
    [][/\ last'.op \in Mutations =>
             /\ writes' = writes \o last'.wrote
             /\ \A i \in 1..Len(last'.wrote) :
                    JsonParse(last'.wrote[i]) = [ok |-> TRUE, v |-> JArr(items')]
       /\ last'.op = "setItem" =>
             /\ last'.storageKey = STORAGE_KEY
             /\ stored' = Text(last'.payload)
             /\ \E i \in 1..Len(writes) :
                    writes[i] = last'.payload /\ writes' = RemoveAt(writes, i)
       /\ stored' # stored => last'.op = "setItem"]_vars

C21_Witness ==
    /\ last.op = "setItem"
    /\ trail.start = Text(JsonStringify(JArr(<<I1tv, I1b>>)))
    /\ stored = Text(JsonStringify(JArr(<<I1tv>>)))
    /\ items = <<I1tv>>

\* what the mutation recorded in l makes of its, and the writes it issues
Applied(l, its) ==
    IF l.op = "remove" THEN Without(its, CallKey(l.key))
    ELSE IF Member(its, ItemKey(l.item))
         THEN (IF l.op = "toggle" THEN Without(its, ItemKey(l.item)) ELSE its)
         ELSE <<l.item>> \o its

Issued(l, its) ==
    IF l.op = "add" /\ Member(its, ItemKey(l.item)) THEN <<>>
    ELSE <<JsonStringify(JArr(Applied(l, its)))>>

EndsWith(s, t) ==
    Len(s) >= Len(t) /\ SubSeq(s, Len(s) - Len(t) + 1, Len(s)) = t

\* C22: two mutations made back to back leave items as the second applied
\* to the result of the first, with the writes of both in flight; any write
\* in flight may land next, the backing store then holds that write's
\* payload, and a landing leaves items alone.
C22_LastLandingWins ==
    [][/\ (last.op \in Mutations /\ last'.op \in Mutations) =>
             /\ items' = Applied(last', Applied(last, last.pre))
             /\ EndsWith(writes', Issued(last, last.pre) \o Issued(last', items))
       /\ last'.op = "setItem" =>
             /\ items' = items
             /\ \E i \in 1..Len(writes) :
                    stored' = Text(writes[i]) /\ writes' = RemoveAt(writes, i)]_vars

\* the write of the second of two adds has landed, that of the first has not
C22_Witness ==
    /\ last.op = "setItem"
    /\ calls = 2
    /\ items = <<I2, I1>>
    /\ stored = Text(JsonStringify(JArr(items)))
    /\ writes = <<JsonStringify(JArr(<<I1>>))>>

\* C23: with every hydrate call issued under the mount guard and mutations
\* made only once hydrated is true, items changes after that only through
\* add, remove or toggle.
C23_MutationsStay ==
    [][(hydrated /\ items' # items) => last'.op \in Mutations]_vars

\* C24: under the mount guard a hydrate call is issued only when none was
\* issued before in this process: none is in flight and none has completed.
C24_HydratesOnce ==
    [][last'.op = "hydrateCall" => (hydrations = <<>> /\ ~hydrated)]_vars

\* some hydrate call has its read settled and has not completed yet
ReadSettled == \E i \in 1..Len(hydrations) : hydrations[i].pc = "settled"

\* C25: the store starts with items = [] and hydrated = false; hydrated
\* becomes true only when a hydrate call completes; and once the read of a
\* hydrate call has settled, resolved or rejected, the call completes:
\* hydrated becomes true and no settled read is left waiting.
C25_HydrateCompletes ==
    /\ items = <<>> /\ hydrated = FALSE
    /\ [][(~hydrated /\ hydrated') => last'.op = "hydrate"]_vars
    /\ ReadSettled ~> hydrated
    /\ ReadSettled ~> ~ReadSettled

C25_Witness ==
    /\ last.op = "hydrate"
    /\ ~last.res.ok
    /\ ~last.preHydrated
    /\ hydrated
    /\ ~ReadSettled

\* C26: add, remove and toggle leave hydrated unchanged and issue no read;
\* a hydrate call issues exactly one read, at the call, and neither the
\* call, the settling of its read nor its completion issues a write or
\* changes the stored payload.
C26_ReadsAndWritesApart ==
    [][/\ last'.op \in Mutations =>
             hydrated' = hydrated /\ hydrations' = hydrations /\ stored' = stored
       /\ last'.op = "hydrateCall" =>
             /\ hydrations' = Append(hydrations, [pc |-> "reading"])
             /\ last'.storageKey = STORAGE_KEY
       /\ last'.op \in {"getItem", "hydrate"} => Len(hydrations') <= Len(hydrations)
       /\ last'.op \in {"hydrateCall", "getItem", "hydrate"} =>
             writes' = writes /\ stored' = stored]_vars

\* a hydrate completed while a write was in flight, and left it and the
\* stored payload alone
C26_Witness ==
    /\ last.op = "hydrate"
    /\ writes # <<>>
    /\ stored # Absent
    /\ items # last.pre

\* the serializations of the values items has held in this process
HeldPayloads == {JsonStringify(JArr(v)) : v \in trail.seen}

\* C27: the stored payload is the one present at process start or the
\* serialization of a value items has held in this process, and so is every
\* payload of a write in flight.
C27_StoredWasHeld ==
    /\ stored = trail.start \/ (stored.has /\ stored.x \in HeldPayloads)
    /\ \A i \in 1..Len(writes) : writes[i] \in HeldPayloads

\* the key holds a value items held earlier and holds no longer
C27_Witness ==
    /\ last.op = "setItem"
    /\ stored # trail.start
    /\ stored # Text(JsonStringify(JArr(items)))
    /\ items # <<>>
    /\ hydrated

\* the items an earlier process persisted
StartItems == IF trail.start.has THEN JsonParse(trail.start.x).v.a ELSE <<>>

\* no add, remove or toggle has been called yet: nothing was called, or the
\* one call so far was a hydrate
NoMutationYet == calls = 0 \/ (calls = 1 /\ (Len(hydrations) = 1 \/ hydrated))

\* C28: an add or toggle that is the first mutation of the process, made
\* before or after hydration completes, issues no write whose payload lacks
\* a persisted item of another key.
C28_AddKeepsPersisted ==
    [][(NoMutationYet /\ last'.op \in {"add", "toggle"}) =>
          \A i \in 1..Len(last'.wrote) : \A j \in 1..Len(StartItems) :
              KeyOf(StartItems[j]) # ItemKey(last'.item)
                  => Member(JsonParse(last'.wrote[i]).v.a, KeyOf(StartItems[j]))]_vars

\* C29: toggle(x); toggle(x) with x's key present at first leaves x at
\* index 0 and the other elements after it in their previous relative
\* order, so items equals the original only if the element of that key was
\* first.
C29_ToggleTwiceMovesToFront ==
    (last.op = "toggle" /\ last.twice /\ Member(last.pre2, ItemKey(last.item))) =>
        /\ items = <<last.item>> \o Without(last.pre2, ItemKey(last.item))
        /\ items = last.pre2 => Holding(last.pre2, ItemKey(last.item)) = {1}

\* the element toggled twice was second and is first now
C29_Witness ==
    /\ last.op = "toggle"
    /\ last.twice
    /\ Holding(last.pre2, ItemKey(last.item)) = {2}
    /\ Holding(items, ItemKey(last.item)) = {1}
    /\ Len(items) = 2

\* C30: add(item) for a key already present keeps the element of that key
\* with the title and posterPath it had, whatever item carries for them.
C30_AddKeepsStoredFields ==
    (last.op = "add" /\ Member(last.pre, ItemKey(last.item))) =>
        /\ Len(items) = Len(last.pre)
        /\ \A i \in Holding(last.pre, ItemKey(last.item)) :
              /\ i \in Holding(items, ItemKey(last.item))
              /\ Get(items[i], "title") = Get(last.pre[i], "title")
              /\ Get(items[i], "posterPath") = Get(last.pre[i], "posterPath")

\* add of I1 (title A, no poster) onto the stored I1b (title B, poster p)
C30_Witness ==
    /\ last.op = "add"
    /\ last.item = I1
    /\ \E i \in 1..Len(items) : items[i] = I1b
    /\ \A i \in 1..Len(items) : items[i] # I1
=============================================================================
